---- MODULE Spec2Model ----
(***************************************************************************)
(* A model of datatables/__init__.py: the DataTable column registry       *)
(* (__init__), the flat-parameter decoder (query_into_dict, coerce_value) *)
(* and the query pipeline (json / _json).                                 *)
(*                                                                         *)
(* Python values are tagged records of one shape, so that values of       *)
(* different Python types can be compared: t is the type, s the text of a *)
(* str (or the name of a callable), n the number of an int or bool, d the *)
(* items of a dict in insertion order (a sequence of [k, v] entries).     *)
(* Strings are TLA+ strings, read character by character with SubSeq.     *)
(***************************************************************************)
EXTENDS Integers, Sequences, FiniteSets, TLC

VARIABLES
    colDecls,            \* the `columns` argument of __init__
    pos,                 \* position of the loop that is running
    columns,             \* self.columns
    columns_dict,        \* self.columns_dict
    d,                   \* __init__'s local d
    filter_func,         \* __init__'s local filter_func
    query,               \* self.query, then _json's local query
    search_func,         \* self.search_func
    column_search_func,  \* self.column_search_func
    params,              \* self.params, in enumeration order
    key_start,           \* query_into_dict's argument
    returner,            \* query_into_dict's local returner
    local,               \* _json's locals
    result,              \* what json() returned
    pc,                  \* where the running call stands
    exc                  \* the exception that left the call, or "none"

vars == <<colDecls, pos, columns, columns_dict, d, filter_func, query,
          search_func, column_search_func, params, key_start, returner,
          local, result, pc, exc>>

tableVars == <<colDecls, columns, columns_dict, d, filter_func>>
hookVars == <<search_func, column_search_func>>
decodeVars == <<key_start, returner>>

(***************************************************************************)
(* Python values                                                           *)
(***************************************************************************)
VStr(s) == [t |-> "str", s |-> s, n |-> 0, d |-> <<>>]
VInt(n) == [t |-> "int", s |-> "", n |-> n, d |-> <<>>]
VBool(b) == [t |-> "bool", s |-> "", n |-> IF b THEN 1 ELSE 0, d |-> <<>>]
VDict(items) == [t |-> "dict", s |-> "", n |-> 0, d |-> items]
VFn(name) == [t |-> "fn", s |-> name, n |-> 0, d |-> <<>>]
VNone == [t |-> "none", s |-> "", n |-> 0, d |-> <<>>]
VUnbound == [t |-> "unbound", s |-> "", n |-> 0, d |-> <<>>]

\* callable(v)
callable(v) == v.t = "fn"

\* bool(v): Python truthiness
Truthy(v) ==
    CASE v.t = "str" -> v.s # ""
      [] v.t = "int" -> v.n # 0
      [] v.t = "bool" -> v.n = 1
      [] v.t = "dict" -> v.d # <<>>
      [] v.t = "none" -> FALSE
      [] OTHER -> TRUE

\* A call's outcome: the exception raised ("none" when it returned) and the value.
Ok(v) == [exc |-> "none", val |-> v]
Raise(e) == [exc |-> e, val |-> VNone]

(***************************************************************************)
(* dict: items in insertion order                                          *)
(***************************************************************************)
DictHas(items, k) == \E i \in 1..Len(items) : items[i].k = k

DictGet(items, k) == items[CHOOSE i \in 1..Len(items) : items[i].k = k].v

\* items[k] = v: an existing key keeps its place
DictSet(items, k, v) ==
    IF DictHas(items, k)
    THEN [i \in 1..Len(items) |->
             IF items[i].k = k THEN [k |-> k, v |-> v] ELSE items[i]]
    ELSE Append(items, [k |-> k, v |-> v])

DictKeys(items) == {items[i].k : i \in 1..Len(items)}

(***************************************************************************)
(* DataColumn and DataTable.__init__                                       *)
(***************************************************************************)
DataColumn(name, model_name, filter) ==
    [name |-> name, model_name |-> model_name, filter |-> filter]

UnboundColumn == DataColumn(VUnbound, VUnbound, VUnbound)

\* The column declarations: a bare identifier, a tuple, a prebuilt DataColumn.
Bare(id) == [kind |-> "bare", elems |-> <<VStr(id)>>]
Tuple(elems) == [kind |-> "tuple", elems |-> elems]
Prebuilt(name, model_name, filter) ==
    [kind |-> "spec", elems |-> <<name, model_name, filter>>]

\* The tuple branch's unpacking: the names bound, or the exception.
UnpackTuple(col, ff) ==
    IF Len(col.elems) = 3
    THEN [exc |-> "none", name |-> col.elems[1], model_name |-> col.elems[2],
          filter_func |-> col.elems[3]]
    ELSE IF Len(col.elems) = 2
    THEN IF ~callable(col.elems[2])
         THEN [exc |-> "none", name |-> col.elems[1],
               model_name |-> col.elems[2], filter_func |-> ff]
         \* name, model_name = (col[0], col[0], col[1]): three values into two names
         ELSE [exc |-> "ValueError", name |-> VNone, model_name |-> VNone,
               filter_func |-> ff]
    ELSE [exc |-> "ValueError", name |-> VNone, model_name |-> VNone,
          filter_func |-> ff]

\* self.columns_dict[d.name] = d, with the d the loop holds at that point
RegisterName(st) ==
    IF st.d = UnboundColumn
    THEN [st EXCEPT !.exc = "UnboundLocalError"]
    ELSE [st EXCEPT !.columns_dict = DictSet(st.columns_dict, st.d.name, st.d)]

\* One iteration of __init__'s loop over the declarations.
\* st = [columns, columns_dict, d, filter_func, exc]
RegisterColumn(st, col) ==
    IF col.kind = "spec"
    THEN RegisterName([st EXCEPT !.columns =
             Append(st.columns,
                    DataColumn(col.elems[1], col.elems[2], col.elems[3]))])
    ELSE IF col.kind = "tuple"
    THEN LET u == UnpackTuple(col, st.filter_func) IN
         IF u.exc # "none"
         THEN [st EXCEPT !.exc = u.exc]
         ELSE IF u.filter_func = VUnbound
         THEN [st EXCEPT !.exc = "UnboundLocalError"]
         ELSE LET dc == DataColumn(u.name, u.model_name, u.filter_func) IN
              RegisterName([st EXCEPT !.filter_func = u.filter_func,
                                      !.d = dc,
                                      !.columns = Append(st.columns, dc)])
    ELSE LET dc == DataColumn(col.elems[1], col.elems[1], VNone) IN
         RegisterName([st EXCEPT !.d = dc,
                                 !.columns = Append(st.columns, dc)])

NewTable ==
    [columns |-> <<>>, columns_dict |-> <<>>, d |-> UnboundColumn,
     filter_func |-> VUnbound, exc |-> "none"]

(***************************************************************************)
(* Text: characters, int(str), str(int), str.split(".")                   *)
(***************************************************************************)
Digits == "0123456789"
Letters == "abcdefghijklmnopqrstuvwxyzABCDEFGHIJKLMNOPQRSTUVWXYZ"

Char(s, i) == SubSeq(s, i, i)

IsDigit(c) == \E i \in 1..Len(Digits) : Char(Digits, i) = c

\* \w of the pattern
IsWord(c) == IsDigit(c) \/ c = "_" \/ \E i \in 1..Len(Letters) : Char(Letters, i) = c

IsSpace(c) == c = " "

DigitVal(c) == (CHOOSE i \in 1..Len(Digits) : Char(Digits, i) = c) - 1

RECURSIVE Strip(_)
Strip(s) ==
    IF s = "" THEN s
    ELSE IF IsSpace(Char(s, 1)) THEN Strip(SubSeq(s, 2, Len(s)))
    ELSE IF IsSpace(Char(s, Len(s))) THEN Strip(SubSeq(s, 1, Len(s) - 1))
    ELSE s

\* The digits of an int literal: digits, with single underscores between digits.
ValidDigits(s) ==
    /\ s # ""
    /\ \A i \in 1..Len(s) : IsDigit(Char(s, i)) \/ Char(s, i) = "_"
    /\ IsDigit(Char(s, 1))
    /\ IsDigit(Char(s, Len(s)))
    /\ \A i \in 1..(Len(s) - 1) : ~(Char(s, i) = "_" /\ Char(s, i + 1) = "_")

RECURSIVE DigitsValue(_, _)
DigitsValue(s, acc) ==
    IF s = "" THEN acc
    ELSE IF Char(s, 1) = "_" THEN DigitsValue(SubSeq(s, 2, Len(s)), acc)
    ELSE DigitsValue(SubSeq(s, 2, Len(s)), 10 * acc + DigitVal(Char(s, 1)))

\* int(value) of a str: the number, or ValueError
ParseInt(value) ==
    LET body == Strip(value)
        signed == body # "" /\ Char(body, 1) \in {"+", "-"}
        digits == IF signed THEN SubSeq(body, 2, Len(body)) ELSE body
        n == DigitsValue(digits, 0)
    IN  IF ValidDigits(digits)
        THEN Ok(VInt(IF signed /\ Char(body, 1) = "-" THEN 0 - n ELSE n))
        ELSE Raise("ValueError")

RECURSIVE IntToStr(_)
IntToStr(n) ==
    IF n < 0 THEN "-" \o IntToStr(0 - n)
    ELSE IF n < 10 THEN Char(Digits, n + 1)
    ELSE IntToStr(n \div 10) \o Char(Digits, (n % 10) + 1)

\* str(v) of a decoded leaf
ToStr(v) == IF v.t = "int" THEN IntToStr(v.n) ELSE v.s

\* s.split(".")
RECURSIVE SplitDots(_, _)
SplitDots(s, cur) ==
    IF s = "" THEN <<cur>>
    ELSE IF Char(s, 1) = "." THEN <<cur>> \o SplitDots(SubSeq(s, 2, Len(s)), "")
    ELSE SplitDots(SubSeq(s, 2, Len(s)), cur \o Char(s, 1))

Split(s) == SplitDots(s, "")

HasDot(s) == \E i \in 1..Len(s) : Char(s, i) = "."

(***************************************************************************)
(* coerce_value and the key pattern of query_into_dict                     *)
(***************************************************************************)
BOOLEAN_FIELDS == {"search.regex", "searchable", "orderable", "regex"}

coerce_value(key, value) ==
    IF key \in BOOLEAN_FIELDS
    THEN VBool(value = "true")
    ELSE LET r == ParseInt(value) IN
         IF r.exc = "none" THEN r.val ELSE VStr(value)

\* The length of the run of characters of a class that starts at s[i].
RECURSIVE DigitRun(_, _)
DigitRun(s, i) ==
    IF i <= Len(s) /\ IsDigit(Char(s, i)) THEN 1 + DigitRun(s, i + 1) ELSE 0

RECURSIVE WordRun(_, _)
WordRun(s, i) ==
    IF i <= Len(s) /\ IsWord(Char(s, i)) THEN 1 + WordRun(s, i + 1) ELSE 0

\* \[(\d+)\] or \[(\w+)\] at s[i]: whether it matches, its group, where it ends.
Bracket(s, i, run) ==
    IF /\ i <= Len(s)
       /\ Char(s, i) = "["
       /\ run >= 1
       /\ i + run + 1 <= Len(s)
       /\ Char(s, i + run + 1) = "]"
    THEN [ok |-> TRUE, text |-> SubSeq(s, i + 1, i + run), next |-> i + run + 2]
    ELSE [ok |-> FALSE, text |-> "", next |-> i]

NoMatch ==
    [ok |-> FALSE, has_id |-> FALSE, column_id |-> "", key |-> "",
     has_sub |-> FALSE, optional_subkey |-> "", end |-> 0]

\* (?:\[(\w+)\])? after [key]: the match, with the subkey when there is one
WithSubkey(k, sub, has_id, column_id) ==
    [ok |-> TRUE, has_id |-> has_id, column_id |-> column_id, key |-> k.text,
     has_sub |-> sub.ok, optional_subkey |-> sub.text, end |-> sub.next - 1]

\* \[(\w+)\] matched as k: go on with the optional subkey
AfterKey(s, k, has_id, column_id) ==
    IF k.ok
    THEN WithSubkey(k, Bracket(s, k.next, WordRun(s, k.next + 1)), has_id, column_id)
    ELSE NoMatch

\* \[(\w+)\](?:\[(\w+)\])? from s[i] on
MatchFields(s, i, has_id, column_id) ==
    AfterKey(s, Bracket(s, i, WordRun(s, i + 1)), has_id, column_id)

\* The match with the index group skipped, tried when the one with it failed.
OrWithoutId(withId, s, i) ==
    IF withId.ok THEN withId ELSE MatchFields(s, i, FALSE, "")

\* (?:\[(\d+)\])? matched as id, or not
AfterId(s, i, id) ==
    IF id.ok
    THEN OrWithoutId(MatchFields(s, id.next, TRUE, id.text), s, i)
    ELSE MatchFields(s, i, FALSE, "")

\* Where the pattern's match may stop: re.match anchors the start only.
MatchEnd(param, m) == m.ok

Anchored(param, m) == IF MatchEnd(param, m) THEN m ELSE NoMatch

\* re.compile(f"{key_start}(?:\[(\d+)\])?\[(\w+)\](?:\[(\w+)\])?").match(param)
PatternMatch(ks, param) ==
    IF Len(param) >= Len(ks) /\ SubSeq(param, 1, Len(ks)) = ks
    THEN Anchored(param,
             AfterId(param, Len(ks) + 1,
                     Bracket(param, Len(ks) + 1, DigitRun(param, Len(ks) + 2))))
    ELSE NoMatch

\* returner[key] = leaf
SetTop(items, key, leaf) == Ok(VDict(DictSet(items, VStr(key), leaf)))

\* returner[int(column_id)][key] = leaf; sub is returner[int(column_id)], which
\* the defaultdict makes when it is missing
SetIndexed(items, cid, sub, key, leaf) ==
    Ok(VDict(DictSet(items, cid, VDict(DictSet(sub.d, VStr(key), leaf)))))

\* subdict[optional_subkey] = leaf, on what setdefault(key, {}) returned
SetSubkey(items, cid, sub, key, subdict, subkey, leaf) ==
    IF subdict.t # "dict"
    THEN Raise("TypeError")
    ELSE SetIndexed(items, cid, sub, key,
                    VDict(DictSet(subdict.d, VStr(subkey), leaf)))

GetOrEmpty(items, k) == IF DictHas(items, k) THEN DictGet(items, k) ELSE VDict(<<>>)

SetNested(items, cid, sub, m, value) ==
    IF ~m.has_sub
    THEN SetIndexed(items, cid, sub, m.key, coerce_value(m.key, value))
    ELSE SetSubkey(items, cid, sub, m.key, GetOrEmpty(sub.d, VStr(m.key)),
                   m.optional_subkey,
                   coerce_value(m.key \o "." \o m.optional_subkey, value))

\* The loop's body once the pattern matched as m.
Decoded(items, m, value) ==
    IF ~m.ok THEN Ok(VDict(items))
    ELSE IF ~m.has_id THEN SetTop(items, m.key, coerce_value(m.key, value))
    ELSE SetNested(items, ParseInt(m.column_id).val,
                   GetOrEmpty(items, ParseInt(m.column_id).val), m, value)

\* One iteration of query_into_dict's loop: returner after (param, value), or
\* the exception.  items are those of the defaultdict(dict).
DecodeParam(items, ks, param, value) ==
    Decoded(items, PatternMatch(ks, param), value)

\* query_into_dict(key_start) over params[from..]: dict(returner), or the exception
RECURSIVE DecodeFrom(_, _, _, _)
DecodeFrom(items, ks, ps, from) ==
    IF from > Len(ps) THEN Ok(VDict(items))
    ELSE LET r == DecodeParam(items, ks, ps[from].k, ps[from].v) IN
         IF r.exc # "none" THEN r ELSE DecodeFrom(r.val.d, ks, ps, from + 1)

query_into_dict(ps, ks) == DecodeFrom(<<>>, ks, ps, 1)

(***************************************************************************)
(* The query object: its rows, and the calls made on it, in order.        *)
(***************************************************************************)
Op(op, field, arg, a, b) == [op |-> op, field |-> field, arg |-> arg, a |-> a, b |-> b]

NewQuery(n) == [rows |-> [i \in 1..n |-> i], log |-> <<>>]

Logged(q, o) == [q EXCEPT !.log = Append(q.log, o)]

\* query.join(relation, aliased=True)
QJoin(q, relation) == Logged(q, Op("join", relation, VNone, 0, 0))

\* join_related_models: one join per column whose model_name has a dot
RECURSIVE JoinFrom(_, _, _)
JoinFrom(q, cols, i) ==
    IF i > Len(cols) THEN [exc |-> "none", query |-> q]
    ELSE IF cols[i].model_name.t # "str" THEN [exc |-> "TypeError", query |-> q]
    ELSE IF HasDot(cols[i].model_name.s)
    THEN JoinFrom(QJoin(q, Split(cols[i].model_name.s)[1]), cols, i + 1)
    ELSE JoinFrom(q, cols, i + 1)

join_related_models(q, cols) == JoinFrom(q, cols, 1)

(***************************************************************************)
(* Bounds and input pools                                                  *)
(***************************************************************************)
MaxCols == 3
MaxRows == 3

Names == {"a", "b"}
Paths == {"a", "r.x"}
Filters == {VFn("f"), VNone}

DeclPool ==
    {Bare(n) : n \in Names}
    \cup {Tuple(<<VStr(n), VStr(p)>>) : n \in Names, p \in Paths}
    \cup {Tuple(<<VStr(n), VFn("f")>>) : n \in Names}
    \cup {Tuple(<<VStr(n), VStr(p), f>>) : n \in Names, p \in Paths, f \in Filters}
    \cup {Prebuilt(VStr(n), VStr("r.x"), VNone) : n \in Names}
    \cup {Tuple(<<VStr("a")>>)}

DeclSeqs == UNION {[1..n -> DeclPool] : n \in 0..MaxCols}

NoLocal ==
    [draw |-> 0, start |-> 0, length |-> 0, columns |-> <<>>, ordering |-> <<>>,
     search |-> <<>>, total_records |-> 0, filtered_records |-> 0]

NoResult == [keys |-> {}, error |-> "", draw |-> 0, recordsTotal |-> 0,
             recordsFiltered |-> 0, data |-> <<>>]

(***************************************************************************)
(* DataTable.__init__, one declaration at a time                           *)
(***************************************************************************)
InitCtor ==
    /\ colDecls \in DeclSeqs
    /\ pos = 1
    /\ columns = <<>>
    /\ columns_dict = <<>>
    /\ d = UnboundColumn
    /\ filter_func = VUnbound
    /\ query = NewQuery(2)
    /\ search_func = "default"
    /\ column_search_func = "default"
    /\ params = <<>>
    /\ key_start = ""
    /\ returner = <<>>
    /\ local = NoLocal
    /\ result = NoResult
    /\ pc = "init"
    /\ exc = "none"

\* for col in columns: ... self.columns_dict[d.name] = d
CtorColumn ==
    /\ pc = "init"
    /\ pos <= Len(colDecls)
    /\ LET st == RegisterColumn(
                     [columns |-> columns, columns_dict |-> columns_dict,
                      d |-> d, filter_func |-> filter_func, exc |-> "none"],
                     colDecls[pos])
       IN  /\ columns' = st.columns
           /\ columns_dict' = st.columns_dict
           /\ d' = st.d
           /\ filter_func' = st.filter_func
           /\ exc' = st.exc
           /\ pc' = IF st.exc = "none" THEN "init" ELSE "raised"
           /\ pos' = IF st.exc = "none" THEN pos + 1 ELSE pos
    /\ UNCHANGED <<colDecls, query, hookVars, params, decodeVars, local, result>>

\* self.join_related_models()
JoinRelatedModels ==
    /\ pc = "init"
    /\ pos > Len(colDecls)
    /\ LET j == join_related_models(query, columns) IN
           /\ query' = j.query
           /\ exc' = j.exc
           /\ pc' = IF j.exc = "none" THEN "ready" ELSE "raised"
    /\ UNCHANGED <<tableVars, pos, hookVars, params, decodeVars, local, result>>

NextCtor == CtorColumn \/ JoinRelatedModels

SpecInit == InitCtor /\ [][NextCtor]_vars

\* DataTable(params, model, query, columns): the table, or the exception
RECURSIVE RegisterFrom(_, _, _)
RegisterFrom(st, decls, i) ==
    IF i > Len(decls) \/ st.exc # "none" THEN st
    ELSE RegisterFrom(RegisterColumn(st, decls[i]), decls, i + 1)

Construct(decls) == RegisterFrom(NewTable, decls, 1)

(***************************************************************************)
(* Claims about the column registry                                        *)
(***************************************************************************)
IsCallablePair(col) ==
    col.kind = "tuple" /\ Len(col.elems) = 2 /\ callable(col.elems[2])

IsPathPair(col) ==
    col.kind = "tuple" /\ Len(col.elems) = 2 /\ ~callable(col.elems[2])

IsTriple(col) == col.kind = "tuple" /\ Len(col.elems) = 3

\* The spec a declaration stands for, by its shape alone.
DeclaredSpec(col) ==
    CASE col.kind = "bare" -> DataColumn(col.elems[1], col.elems[1], VNone)
      [] col.kind = "spec" -> DataColumn(col.elems[1], col.elems[2], col.elems[3])
      [] IsTriple(col) -> DataColumn(col.elems[1], col.elems[2], col.elems[3])
      [] IsCallablePair(col) -> DataColumn(col.elems[1], col.elems[1], col.elems[2])
      [] IsPathPair(col) -> DataColumn(col.elems[1], col.elems[2], VNone)
      [] OTHER -> UnboundColumn

\* The declarations the loop has gone through without raising.
Registered == 1..(pos - 1)

\* C1: a declaration (name, f) with f callable is registered as
\* DataColumn(name, name, f), and its construction does not raise.
C1_CallablePairRegistered ==
    \A k \in 1..Len(colDecls) :
        IsCallablePair(colDecls[k]) =>
            /\ ~(pc = "raised" /\ pos = k)
            /\ k \in Registered => columns[k] = DeclaredSpec(colDecls[k])

\* C2: for declarations that are bare identifiers, (name, sourcePath) pairs,
\* triples and prebuilt specs, construction does not raise and the i-th column
\* is the one the i-th declaration alone stands for.
C2_EntryFromOwnDeclaration ==
    (\A k \in 1..Len(colDecls) :
        \/ colDecls[k].kind \in {"bare", "spec"}
        \/ IsTriple(colDecls[k])
        \/ IsPathPair(colDecls[k]))
    => /\ pc # "raised"
       /\ \A k \in Registered : columns[k] = DeclaredSpec(colDecls[k])

LastWithName(cols, name) ==
    cols[CHOOSE i \in 1..Len(cols) :
            /\ cols[i].name = name
            /\ \A j \in (i + 1)..Len(cols) : cols[j].name # name]

\* C3: after construction the keys of columns_dict are the names of columns,
\* and each name maps to the last column of that name.
C3_LookupMapMatchesColumns ==
    pc = "ready" =>
        /\ DictKeys(columns_dict) = {columns[i].name : i \in 1..Len(columns)}
        /\ \A i \in 1..Len(columns) :
               DictGet(columns_dict, columns[i].name)
                   = LastWithName(columns, columns[i].name)

(***************************************************************************)
(* query_into_dict, one parameter at a time                                *)
(***************************************************************************)
MaxParams == 2

Param(k, v) == [k |-> k, v |-> v]

KeyStarts == {"columns", "order", "search"}

DecodeKeys ==
    {"columns[0][data]", "columns[0][search]", "columns[0][search][value]",
     "columns[0][search][regex]", "columns[1][orderable]", "columns[5]",
     "columns[0][data]x", "columns[0][search][value][x]", "columns[a][b]",
     "columns", "xcolumns[0][data]", "search[value]", "search[value][x]",
     "order[0][column]", "order[0][dir]", "order[00][dir]"}

DecodeValues == {"true", "07", "abc"}

DistinctKeys(ps) == \A i, j \in 1..Len(ps) : ps[i].k = ps[j].k => i = j

DecodeParams ==
    {ps \in UNION {[1..n -> {Param(k, v) : k \in DecodeKeys, v \in DecodeValues}]
                       : n \in 0..MaxParams} : DistinctKeys(ps)}

InitDecode ==
    /\ colDecls = <<>>
    /\ pos = 1
    /\ columns = <<>>
    /\ columns_dict = <<>>
    /\ d = UnboundColumn
    /\ filter_func = VUnbound
    /\ query = NewQuery(0)
    /\ search_func = "default"
    /\ column_search_func = "default"
    /\ params \in DecodeParams
    /\ key_start \in KeyStarts
    /\ returner = <<>>
    /\ local = NoLocal
    /\ result = NoResult
    /\ pc = "decoding"
    /\ exc = "none"

\* for param, value in self.params.items(): ...
DecodeParamStep ==
    /\ pc = "decoding"
    /\ pos <= Len(params)
    /\ LET r == DecodeParam(returner, key_start, params[pos].k, params[pos].v) IN
           /\ exc' = r.exc
           /\ returner' = IF r.exc = "none" THEN r.val.d ELSE returner
           /\ pc' = IF r.exc = "none" THEN "decoding" ELSE "raised"
           /\ pos' = IF r.exc = "none" THEN pos + 1 ELSE pos
    /\ UNCHANGED <<tableVars, query, hookVars, params, key_start, local, result>>

\* return dict(returner)
DecodeReturn ==
    /\ pc = "decoding"
    /\ pos > Len(params)
    /\ pc' = "decoded"
    /\ UNCHANGED <<tableVars, pos, query, hookVars, params, decodeVars, local,
                   result, exc>>

NextDecode == DecodeParamStep \/ DecodeReturn

SpecDecode == InitDecode /\ [][NextDecode]_vars

(***************************************************************************)
(* Claims about the decoder                                                *)
(***************************************************************************)
\* A key that is exactly prefix[digits][word], prefix[digits][word][word]
\* or prefix[word].
RecognizedShape(ks, param) ==
    LET m == PatternMatch(ks, param) IN
        /\ m.ok
        /\ m.end = Len(param)
        /\ m.has_sub => m.has_id

RecognizedOnly(ps, ks) == SelectSeq(ps, LAMBDA e : RecognizedShape(ks, e.k))

\* C10: query_into_dict does not raise, and keys that are not exactly of a
\* recognized shape contribute nothing: the result is the decoding of the
\* parameters without those keys.
C10_UnrecognizedKeysIgnored ==
    /\ pc # "raised"
    /\ pc = "decoded" =>
           Ok(VDict(returner)) = query_into_dict(RecognizedOnly(params, key_start), key_start)

(***************************************************************************)
(* json() and _json()                                                      *)
(***************************************************************************)
HasParam(ps, name) == \E i \in 1..Len(ps) : ps[i].k = name

ParamValue(ps, name) == ps[CHOOSE i \in 1..Len(ps) : ps[i].k = name].v

\* except (KeyError, ValueError) of get_integer_param
get_integer_param_except_KeyError(e) == e = "KeyError"

get_integer_param_except(e) == e \in {"KeyError", "ValueError"}

\* get_integer_param(param_name): the int, or DataTablesError with its message
get_integer_param(ps, param_name) ==
    LET r == IF HasParam(ps, param_name)
             THEN ParseInt(ParamValue(ps, param_name))
             ELSE Raise("KeyError")
    IN  IF r.exc = "none" THEN [exc |-> "none", n |-> r.val.n, msg |-> ""]
        ELSE IF get_integer_param_except(r.exc)
        THEN [exc |-> "DataTablesError", n |-> 0,
              msg |-> "Parameter " \o param_name \o " is missing or invalid"]
        ELSE [exc |-> r.exc, n |-> 0, msg |-> ""]

\* except DataTablesError of json()
json_except(e) == e = "DataTablesError"

ErrorResponse(msg) ==
    [keys |-> {"error"}, error |-> msg, draw |-> 0, recordsTotal |-> 0,
     recordsFiltered |-> 0, data |-> <<>>]

\* v[key] on a decoded value, key a str
Subscript(v, key) ==
    IF v.t # "dict" THEN Raise("TypeError")
    ELSE IF DictHas(v.d, VStr(key)) THEN Ok(DictGet(v.d, VStr(key)))
    ELSE Raise("KeyError")

\* v.get(key)
Get(v, key) ==
    IF v.t # "dict" THEN Raise("AttributeError")
    ELSE IF key.t = "dict" THEN Raise("TypeError")
    ELSE IF DictHas(v.d, key) THEN Ok(DictGet(v.d, key))
    ELSE Ok(VNone)

\* self.columns_dict[name]
Lookup(registry, name) ==
    IF name.t = "dict" THEN [exc |-> "TypeError", col |-> UnboundColumn]
    ELSE IF DictHas(registry, name)
    THEN [exc |-> "none", col |-> DictGet(registry, name)]
    ELSE [exc |-> "KeyError", col |-> UnboundColumn]

\* The model class: its columns, its relations, the related entity's columns.
ModelFields == {"a", "b"}
ModelRelations == {"r"}
RelatedFields == {"x"}

\* get_column(column): the handle of the model column, or AttributeError
get_column(column) ==
    IF column.model_name.t # "str" THEN [exc |-> "AttributeError", field |-> ""]
    ELSE LET column_path == Split(column.model_name.s) IN
         IF Len(column_path) = 1 /\ column_path[1] \in ModelFields \cup ModelRelations
         THEN [exc |-> "none", field |-> column.model_name.s]
         ELSE IF /\ Len(column_path) = 2
                 /\ column_path[1] \in ModelRelations
                 /\ column_path[2] \in RelatedFields
         THEN [exc |-> "none", field |-> column.model_name.s]
         ELSE [exc |-> "AttributeError", field |-> ""]

\* query.count()
QCount(q) == Len(q.rows)

\* what a search function registered by the caller returns: a query of `keep`
\* of the rows; the default lambda returns the query it was given
QFilter(q, keep) == [q EXCEPT !.rows = SubSeq(q.rows, 1, keep)]

\* self.search_func(query, value)
CallSearch(q, func, value, keep) ==
    Logged(IF func = "user" THEN QFilter(q, keep) ELSE q,
           Op("search", func, value, 0, 0))

\* self.column_search_func(model_column, query, str(search_value))
CallColumnSearch(q, func, model_column, value, keep) ==
    Logged(IF func = "user" THEN QFilter(q, keep) ELSE q,
           Op("colsearch", model_column, VStr(ToStr(value)), 0, 0))

\* if ... and search.get("value"):
GlobalSearchApplies(search) == Truthy(Get(VDict(search), VStr("value")).val)

\* The body of `for column_data in columns.values()`.
ColumnSearchBody(q, column_data, registry, func, keep) ==
    LET s == Subscript(column_data, "search")
        search_value == IF s.exc = "none" THEN Subscript(s.val, "value") ELSE s
        flag == Get(column_data, VStr("searchable"))
        name == Subscript(column_data, "data")
        column == IF name.exc = "none" THEN Lookup(registry, name.val)
                  ELSE [exc |-> name.exc, col |-> UnboundColumn]
        model_column == IF column.exc = "none" THEN get_column(column.col)
                        ELSE [exc |-> column.exc, field |-> ""]
    IN  IF search_value.exc # "none" THEN [exc |-> search_value.exc, query |-> q]
        ELSE IF ~(Truthy(flag.val) /\ Truthy(search_value.val))
        THEN [exc |-> "none", query |-> q]
        ELSE IF model_column.exc # "none" THEN [exc |-> model_column.exc, query |-> q]
        ELSE [exc |-> "none",
              query |-> CallColumnSearch(q, func, model_column.field,
                                         search_value.val, keep)]

\* query.order_by(model_column.desc() if order["dir"] == "desc" else model_column.asc())
OrderDirection(dir) == IF dir = VStr("desc") THEN "desc" ELSE "asc"

QOrderBy(q, model_column, direction) ==
    Logged(q, Op("order", model_column, VStr(direction), 0, 0))

\* The body of `for order in ordering.values()`.
OrderBody(q, order, cols, registry) ==
    LET idx == Subscript(order, "column")
        column_data == IF idx.exc = "none" THEN Get(VDict(cols), idx.val) ELSE idx
        flag == Get(column_data.val, VStr("orderable"))
        name == Subscript(column_data.val, "data")
        column == IF name.exc = "none" THEN Lookup(registry, name.val)
                  ELSE [exc |-> name.exc, col |-> UnboundColumn]
        model_column == IF column.exc = "none" THEN get_column(column.col)
                        ELSE [exc |-> column.exc, field |-> ""]
        dir == Subscript(order, "dir")
    IN  IF column_data.exc # "none" THEN [exc |-> column_data.exc, query |-> q]
        ELSE IF ~Truthy(column_data.val) THEN [exc |-> "none", query |-> q]
        ELSE IF flag.exc # "none" THEN [exc |-> flag.exc, query |-> q]
        ELSE IF ~Truthy(flag.val) THEN [exc |-> "none", query |-> q]
        ELSE IF model_column.exc # "none" THEN [exc |-> model_column.exc, query |-> q]
        ELSE IF dir.exc # "none" THEN [exc |-> dir.exc, query |-> q]
        ELSE [exc |-> "none",
              query |-> QOrderBy(q, model_column.field, OrderDirection(dir.val))]

\* The stop of the window _json asks for.
SliceStop_length(start, length) == length

SliceStop(start, length) == start + length

Max(x, y) == IF x >= y THEN x ELSE y
Min(x, y) == IF x <= y THEN x ELSE y

\* query.slice(start, stop): OFFSET start LIMIT stop - start.  A negative
\* OFFSET is read as 0 by a database that accepts it.
QSlice(q, start, stop) ==
    LET offset == Max(start, 0)
        limit == Max(stop - start, 0)
    IN  Logged([q EXCEPT !.rows = SubSeq(q.rows, offset + 1,
                                         Min(Len(q.rows), offset + limit))],
               Op("slice", "", VNone, start, stop))

\* What the database does with a negative OFFSET: it reads it as 0, or it
\* rejects the statement.
SliceOutcomes(start) == IF start < 0 THEN {"rows", "DatabaseError"} ELSE {"rows"}

\* output_instance(instance): the row, under the names of self.columns
output_instance(cols, instance) ==
    [instance |-> instance, names |-> [i \in 1..Len(cols) |-> cols[i].name]]

(***************************************************************************)
(* A request against a constructed table, one step of _json at a time      *)
(***************************************************************************)
\* The table the requests are made against: DataTable(params, model, query,
\* ["a", ("b", "r.x", None)]).
JsonDecls == <<Bare("a"), Tuple(<<VStr("b"), VStr("r.x"), VNone>>)>>

InitJson(paramSets, rowCounts) ==
    LET table == Construct(JsonDecls) IN
    /\ colDecls = JsonDecls
    /\ pos = 1
    /\ columns = table.columns
    /\ columns_dict = table.columns_dict
    /\ d = table.d
    /\ filter_func = table.filter_func
    /\ \E n \in rowCounts : query = join_related_models(NewQuery(n), table.columns).query
    /\ search_func = "default"
    /\ column_search_func = "default"
    /\ params \in paramSets
    /\ key_start = ""
    /\ returner = <<>>
    /\ local = NoLocal
    /\ result = NoResult
    /\ pc = "ready"
    /\ exc = "none"

\* searchable(func)
Searchable ==
    /\ pc = "ready"
    /\ search_func = "default"
    /\ search_func' = "user"
    /\ UNCHANGED <<tableVars, pos, query, column_search_func, params, decodeVars,
                   local, result, pc, exc>>

\* searchable_column(func)
SearchableColumn ==
    /\ pc = "ready"
    /\ column_search_func = "default"
    /\ column_search_func' = "user"
    /\ UNCHANGED <<tableVars, pos, query, search_func, params, decodeVars,
                   local, result, pc, exc>>

\* An exception leaves _json: json() turns DataTablesError into the error
\* response and lets every other exception through to the caller.
Leave(e, msg) ==
    IF json_except(e)
    THEN pc' = "returned" /\ result' = ErrorResponse(msg) /\ exc' = "none"
    ELSE pc' = "raised" /\ result' = result /\ exc' = e

Continue(next) == pc' = next /\ result' = result /\ exc' = exc

PcAfterColumns(l) == IF l.ordering # <<>> THEN "order" ELSE "fcount"
PcAfterSearch(l) == IF l.columns # <<>> THEN "colsearch" ELSE PcAfterColumns(l)

\* draw, start, length = self.get_integer_param(...)
JsonIntegerParams ==
    /\ pc = "ready"
    /\ LET draw == get_integer_param(params, "draw")
           start == get_integer_param(params, "start")
           length == get_integer_param(params, "length")
           first == IF draw.exc # "none" THEN draw
                    ELSE IF start.exc # "none" THEN start ELSE length
       IN  /\ IF first.exc # "none" THEN Leave(first.exc, first.msg)
              ELSE Continue("decode")
           /\ local' = IF first.exc # "none" THEN local
                       ELSE [local EXCEPT !.draw = draw.n, !.start = start.n,
                                          !.length = length.n]
    /\ key_start' = "columns"
    /\ returner' = <<>>
    /\ pos' = 1
    /\ UNCHANGED <<tableVars, query, hookVars, params>>

\* columns, ordering, search = self.query_into_dict(...): one iteration of
\* the loop of the query_into_dict call that is running
JsonDecodeParam ==
    /\ pc = "decode"
    /\ pos <= Len(params)
    /\ LET r == DecodeParam(returner, key_start, params[pos].k, params[pos].v) IN
           /\ returner' = IF r.exc = "none" THEN r.val.d ELSE returner
           /\ pos' = IF r.exc = "none" THEN pos + 1 ELSE pos
           /\ IF r.exc = "none" THEN Continue("decode") ELSE Leave(r.exc, "")
    /\ UNCHANGED <<tableVars, query, hookVars, params, key_start, local>>

\* return dict(returner), to the local of _json that the call is for
JsonDecodeReturn ==
    /\ pc = "decode"
    /\ pos > Len(params)
    /\ local' = IF key_start = "columns" THEN [local EXCEPT !.columns = returner]
                ELSE IF key_start = "order" THEN [local EXCEPT !.ordering = returner]
                ELSE [local EXCEPT !.search = returner]
    /\ key_start' = IF key_start = "columns" THEN "order" ELSE "search"
    /\ returner' = <<>>
    /\ pos' = 1
    /\ Continue(IF key_start = "search" THEN "count" ELSE "decode")
    /\ UNCHANGED <<tableVars, query, hookVars, params>>

\* query = self.query; total_records = query.count()
JsonCountTotal ==
    /\ pc = "count"
    /\ local' = [local EXCEPT !.total_records = QCount(query)]
    /\ query' = Logged(query, Op("count", "", VNone, 0, 0))
    /\ Continue("search")
    /\ UNCHANGED <<tableVars, pos, hookVars, params, decodeVars>>

\* if callable(self.search_func) and search.get("value"): ...
JsonGlobalSearch ==
    /\ pc = "search"
    /\ IF GlobalSearchApplies(local.search)
       THEN \E keep \in (IF search_func = "user" THEN 0..Len(query.rows)
                         ELSE {Len(query.rows)}) :
                query' = CallSearch(query, search_func,
                                    Subscript(VDict(local.search), "value").val, keep)
       ELSE query' = query
    /\ pos' = 1
    /\ Continue(PcAfterSearch(local))
    /\ UNCHANGED <<tableVars, hookVars, params, decodeVars, local>>

\* for column_data in columns.values(): ...
JsonColumnSearch ==
    /\ pc = "colsearch"
    /\ pos <= Len(local.columns)
    /\ \E keep \in (IF column_search_func = "user" THEN 0..Len(query.rows)
                    ELSE {Len(query.rows)}) :
           LET r == ColumnSearchBody(query, local.columns[pos].v, columns_dict,
                                     column_search_func, keep)
           IN  /\ query' = r.query
               /\ IF r.exc # "none" THEN Leave(r.exc, "") /\ pos' = pos
                  ELSE IF pos < Len(local.columns)
                  THEN Continue("colsearch") /\ pos' = pos + 1
                  ELSE Continue(PcAfterColumns(local)) /\ pos' = 1
    /\ UNCHANGED <<tableVars, hookVars, params, decodeVars, local>>

\* for order in ordering.values(): ...
JsonOrder ==
    /\ pc = "order"
    /\ pos <= Len(local.ordering)
    /\ LET r == OrderBody(query, local.ordering[pos].v, local.columns, columns_dict)
       IN  /\ query' = r.query
           /\ IF r.exc # "none" THEN Leave(r.exc, "") /\ pos' = pos
              ELSE IF pos < Len(local.ordering)
              THEN Continue("order") /\ pos' = pos + 1
              ELSE Continue("fcount") /\ pos' = 1
    /\ UNCHANGED <<tableVars, hookVars, params, decodeVars, local>>

\* filtered_records = query.count()
JsonCountFiltered ==
    /\ pc = "fcount"
    /\ local' = [local EXCEPT !.filtered_records = QCount(query)]
    /\ query' = Logged(query, Op("count", "", VNone, 0, 0))
    /\ Continue("slice")
    /\ UNCHANGED <<tableVars, pos, hookVars, params, decodeVars>>

\* if length > 0: query = query.slice(start, start + length)
JsonSlice ==
    /\ pc = "slice"
    /\ query' = IF local.length > 0
                THEN QSlice(query, local.start, SliceStop(local.start, local.length))
                ELSE query
    /\ Continue("fetch")
    /\ UNCHANGED <<tableVars, pos, hookVars, params, decodeVars, local>>

\* return {"draw": ..., "data": [self.output_instance(i) for i in query.all()]}
JsonReturn ==
    /\ pc = "fetch"
    /\ \E outcome \in (IF local.length > 0 THEN SliceOutcomes(local.start)
                       ELSE {"rows"}) :
           IF outcome = "rows"
           THEN /\ pc' = "returned"
                /\ exc' = exc
                /\ result' =
                       [keys |-> {"draw", "recordsTotal", "recordsFiltered", "data"},
                        error |-> "",
                        draw |-> local.draw,
                        recordsTotal |-> local.total_records,
                        recordsFiltered |-> local.filtered_records,
                        data |-> [i \in 1..Len(query.rows) |->
                                     output_instance(columns, query.rows[i])]]
           ELSE Leave(outcome, "")
    /\ UNCHANGED <<tableVars, pos, query, hookVars, params, decodeVars, local>>

NextJson ==
    \/ Searchable
    \/ SearchableColumn
    \/ JsonIntegerParams
    \/ JsonDecodeParam
    \/ JsonDecodeReturn
    \/ JsonCountTotal
    \/ JsonGlobalSearch
    \/ JsonColumnSearch
    \/ JsonOrder
    \/ JsonCountFiltered
    \/ JsonSlice
    \/ JsonReturn

(***************************************************************************)
(* Requests                                                                *)
(***************************************************************************)
Absent == "<absent>"

\* A parameter, or nothing when the request does not send it.
Opt(k, v) == IF v = Absent THEN <<>> ELSE <<Param(k, v)>>

Numbers(draw, start, length) ==
    Opt("draw", draw) \o Opt("start", start) \o Opt("length", length)

ColumnParams(i, data, searchable, orderable, value) ==
    Opt("columns[" \o i \o "][data]", data)
    \o Opt("columns[" \o i \o "][searchable]", searchable)
    \o Opt("columns[" \o i \o "][orderable]", orderable)
    \o Opt("columns[" \o i \o "][search][value]", value)

OrderParams(j, column, dir) ==
    Opt("order[" \o j \o "][column]", column) \o Opt("order[" \o j \o "][dir]", dir)

\* What Python's int() makes of the numeric strings the requests use; a string
\* outside the domain is one int() rejects.
IntSpelling ==
    ("0" :> 0) @@ ("1" :> 1) @@ ("2" :> 2) @@ ("5" :> 5) @@ ("-1" :> 0 - 1)
    @@ (" 3 " :> 3) @@ ("1_0" :> 10) @@ ("007" :> 7) @@ ("7" :> 7)

DrawValues == {Absent, "1", "x"}
StartValues == {Absent, "0", "1", "2", "-1", " 3 ", "1.5"}
LengthValues == {Absent, "0", "1", "2", "-1", "5", "1_0", "abc"}

PagingParams ==
    {Numbers(dr, st, ln)
        \o Opt("search[value]", sv)
        \o ColumnParams("0", "a", "true", "true", "")
        \o OrderParams("0", "0", "asc")
     : dr \in DrawValues, st \in StartValues, ln \in LengthValues, sv \in {"", "q"}}

InitPaging == InitJson(PagingParams, 0..MaxRows)

SpecPaging == InitPaging /\ [][NextJson]_vars

(***************************************************************************)
(* Claims about draw, start, length and the page                           *)
(***************************************************************************)
IsInteger(name) ==
    HasParam(params, name) /\ ParamValue(params, name) \in DOMAIN IntSpelling

IntegerOf(name) == IntSpelling[ParamValue(params, name)]

NumbersValid == IsInteger("draw") /\ IsInteger("start") /\ IsInteger("length")

FirstInvalid ==
    IF ~IsInteger("draw") THEN "draw"
    ELSE IF ~IsInteger("start") THEN "start" ELSE "length"

RowsReturned == pc = "returned" /\ "data" \in result.keys

PageSize(start, length, filtered) ==
    IF length <= 0 THEN filtered ELSE Min(length, Max(0, filtered - start))

\* C4 as stated: a request with integer draw, start and length that completes
\* returns recordsFiltered rows when length <= 0 and
\* min(length, max(0, recordsFiltered - start)) rows when length > 0.
C4_PageSizeAnyStart ==
    (RowsReturned /\ NumbersValid) =>
        Len(result.data) =
            PageSize(IntegerOf("start"), IntegerOf("length"), result.recordsFiltered)

\* C4, amended: the same, for requests whose start is not negative.
C4_PageSize ==
    (RowsReturned /\ NumbersValid /\ IntegerOf("start") >= 0) =>
        Len(result.data) =
            PageSize(IntegerOf("start"), IntegerOf("length"), result.recordsFiltered)

C4_Witness ==
    /\ RowsReturned
    /\ NumbersValid
    /\ IntegerOf("start") > 0
    /\ IntegerOf("length") > 1
    /\ Len(result.data) > 0
    /\ Len(result.data) < IntegerOf("length")
    /\ Len(result.data) < result.recordsFiltered

\* C5: when draw, start or length is missing or not an integer, json() does
\* not raise and returns exactly {"error": "Parameter <p> is missing or
\* invalid"}, <p> the first such parameter in the order draw, start, length.
C5_InvalidNumberGivesErrorResponse ==
    ~NumbersValid =>
        /\ pc \in {"ready", "returned"}
        /\ exc = "none"
        /\ pc = "returned" =>
               /\ result.keys = {"error"}
               /\ result.error =
                      "Parameter " \o FirstInvalid \o " is missing or invalid"

C5_Witness ==
    /\ pc = "returned"
    /\ IsInteger("draw")
    /\ HasParam(params, "start")
    /\ ~IsInteger("start")
    /\ ~HasParam(params, "length")
    /\ result = ErrorResponse("Parameter start is missing or invalid")

(***************************************************************************)
(* Requests that search                                                    *)
(***************************************************************************)
SearchValues == {Absent, "", "0", "007", "abc"}

\* The first column, and the order request that names it when it is orderable.
FirstColumns ==
    {ColumnParams("0", data, searchable, orderable, value)
     : data \in {"a", "zz"}, searchable \in {"true", "false"},
       orderable \in {"true", "false"}, value \in {"", "0", "q"}}

SecondColumns ==
    {<<>>,
     ColumnParams("1", "b", "true", "false", "x"),
     ColumnParams("1", "zz", "false", "false", "")}

OrderOfFirst(c0) ==
    IF HasParam(c0, "columns[0][orderable]")
           /\ ParamValue(c0, "columns[0][orderable]") = "true"
    THEN OrderParams("0", "0", "asc")
    ELSE <<>>

SearchParams ==
    {Numbers("1", "0", "0") \o Opt("search[value]", sv) \o c0 \o c1 \o OrderOfFirst(c0)
     : sv \in SearchValues, c0 \in FirstColumns, c1 \in SecondColumns}

InitSearch == InitJson(SearchParams, {MaxRows - 1})

SpecSearch == InitSearch /\ [][NextJson]_vars

(***************************************************************************)
(* Claims about searching                                                  *)
(***************************************************************************)
ColumnIndexes == {"0", "1"}

ColumnParam(i, field) == "columns[" \o i \o "][" \o field \o "]"

ColumnSent(i) == HasParam(params, ColumnParam(i, "data"))

ColumnName(i) == ParamValue(params, ColumnParam(i, "data"))

ColumnFlag(i, flag) ==
    HasParam(params, ColumnParam(i, flag))
        /\ ParamValue(params, ColumnParam(i, flag)) = "true"

ColumnSearchValue(i) ==
    IF HasParam(params, ColumnParam(i, "search][value"))
    THEN ParamValue(params, ColumnParam(i, "search][value"))
    ELSE ""

\* The registry of the table of JsonDecls: external name -> model column.
RegistryField == ("a" :> "a") @@ ("b" :> "r.x")

NameKnown(i) == ColumnName(i) \in DOMAIN RegistryField

\* searchable is true and the search value is a non-empty string
SearchRequested(i) ==
    ColumnSent(i) /\ ColumnFlag(i, "searchable") /\ ColumnSearchValue(i) # ""

\* some order request names column i, and column i is orderable
OrderRequested(i) ==
    /\ ColumnSent(i)
    /\ ColumnFlag(i, "orderable")
    /\ \E j \in {"0", "1"} :
           /\ HasParam(params, "order[" \o j \o "][column]")
           /\ ParamValue(params, "order[" \o j \o "][column]") = i

Calls(op) == SelectSeq(query.log, LAMBDA o : o.op = op)

FirstCall(op) == CHOOSE i \in 1..Len(query.log) :
                     /\ query.log[i].op = op
                     /\ \A j \in 1..(i - 1) : query.log[j].op # op

\* C6 as stated: with valid draw, start and length, a column request whose
\* data name is not in the registry makes json() raise: the call never returns.
C6_UnknownNameAlwaysRaises ==
    (NumbersValid /\ \E i \in ColumnIndexes : ColumnSent(i) /\ ~NameKnown(i))
        => pc # "returned"

\* C7: the per-column search function is applied, with the column's field and
\* its search value, exactly for the column requests that are searchable with a
\* non-empty search value; the other column requests cause no error.
C7_ColumnSearchIffRequested ==
    /\ (pc = "returned" /\ NumbersValid) =>
           /\ Len(Calls("colsearch"))
                  = Cardinality({i \in ColumnIndexes : SearchRequested(i)})
           /\ \A i \in ColumnIndexes :
                  (SearchRequested(i) /\ NameKnown(i)) =>
                      \E k \in 1..Len(Calls("colsearch")) :
                          /\ Calls("colsearch")[k].field = RegistryField[ColumnName(i)]
                          /\ Calls("colsearch")[k].arg = VStr(ColumnSearchValue(i))
    /\ (NumbersValid /\ \A i \in ColumnIndexes : ~SearchRequested(i) /\ ~OrderRequested(i))
           => pc # "raised"

\* C8: the global search function is applied once, with the string sent as
\* search[value], exactly when that string is not empty; after the recordsTotal
\* count and before any per-column search.
C8_GlobalSearchIffValue ==
    (pc = "returned" /\ NumbersValid) =>
        IF HasParam(params, "search[value]") /\ ParamValue(params, "search[value]") # ""
        THEN /\ Len(Calls("search")) = 1
             /\ Calls("search")[1].arg = VStr(ParamValue(params, "search[value]"))
             /\ \E c \in 1..Len(query.log) :
                    query.log[c].op = "count" /\ c < FirstCall("search")
             /\ \A c \in 1..Len(query.log) :
                    query.log[c].op = "colsearch" => FirstCall("search") < c
        ELSE Calls("search") = <<>>

(***************************************************************************)
(* Requests that order                                                     *)
(***************************************************************************)
OrderedColumns ==
    {ColumnParams("0", "a", "false", o0, "") \o ColumnParams("1", "b", "false", o1, "")
     : o0 \in {"true", "false"}, o1 \in {"true", "false"}}

\* order[0] and, when sent, order[1], enumerated in either order
OrderRequests ==
    LET first == {OrderParams("0", c, dir)
                  : c \in {"0", "1", "7"}, dir \in {"asc", "desc", "up"}}
        second == {OrderParams("1", c, "desc") : c \in {"0", "1", "7"}}
    IN  first
        \cup {a \o b : a \in first, b \in second}
        \cup {b \o a : a \in first, b \in second}

OrderingParams ==
    {Numbers("1", "0", "0") \o cols \o orders
     : cols \in OrderedColumns, orders \in OrderRequests}

InitOrder == InitJson(OrderingParams, {MaxRows - 1})

SpecOrder == InitOrder /\ [][NextJson]_vars

(***************************************************************************)
(* Claims about ordering                                                   *)
(***************************************************************************)
OrderSent(j) == HasParam(params, "order[" \o j \o "][column]")

OrderColumn(j) == ParamValue(params, "order[" \o j \o "][column]")

OrderDir(j) == ParamValue(params, "order[" \o j \o "][dir]")

\* The sort key order request j asks for, or none when it is skipped.
SortKeys(j) ==
    IF /\ OrderSent(j)
       /\ OrderColumn(j) \in ColumnIndexes
       /\ ColumnSent(OrderColumn(j))
       /\ ColumnFlag(OrderColumn(j), "orderable")
    THEN <<[field |-> RegistryField[ColumnName(OrderColumn(j))],
            dir |-> IF OrderDir(j) = "desc" THEN "desc" ELSE "asc"]>>
    ELSE <<>>

AppliedSortKeys ==
    [k \in 1..Len(Calls("order")) |->
        [field |-> Calls("order")[k].field, dir |-> Calls("order")[k].arg.s]]

\* C9: the sort keys appended to the query are those of the order requests in
\* ascending order of their index, whatever the order the parameters are
\* enumerated in; requests naming a column that is absent or not orderable are
\* skipped without error.
C9_SortKeysInIndexOrder ==
    /\ pc # "raised"
    /\ pc = "returned" => AppliedSortKeys = SortKeys("0") \o SortKeys("1")

(***************************************************************************)
(* The whole: a construction, a decoding, or a request                     *)
(***************************************************************************)
Init == InitCtor \/ InitDecode \/ InitPaging \/ InitSearch \/ InitOrder

Next == NextCtor \/ NextDecode \/ NextJson

Spec == Init /\ [][Next]_vars

====
